---- MODULE Spec2Model ----
(***************************************************************************)
(* Model of provision/digitalocean/digitalocean.go: the "do create"        *)
(* workflow (makeInfra, validateKeyFile, makePlan), the plan-file          *)
(* allocator (makeUniqueFile) and the administrative password generator    *)
(* (generateAlphaNumericPassword).                                         *)
(***************************************************************************)
EXTENDS Integers, Sequences, FiniteSets, TLC

(***************************************************************************)
(* Bounds of the model.                                                    *)
(***************************************************************************)
\* Largest number of plan files already present in the working directory.
MaxFiles == 3

\* Depth of makeUniqueFile's recursion the goroutine stack can hold.  The Go
\* runtime ends the process with "fatal error: stack overflow" when the
\* stack limit is passed; the limit is finite, here scaled to the directory.
StackDepth == MaxFiles + 2

\* The invocations of the tool that share one working directory.
Procs == {1, 2}

\* Every suffix makeUniqueFile can probe before the stack is exhausted.
Counts == 0..StackDepth

(***************************************************************************)
(* makeUniqueFile: the candidate file name.                                *)
(***************************************************************************)
DigitChar(d) ==
    CASE d = 0 -> "0" [] d = 1 -> "1" [] d = 2 -> "2" [] d = 3 -> "3"
      [] d = 4 -> "4" [] d = 5 -> "5" [] d = 6 -> "6" [] d = 7 -> "7"
      [] d = 8 -> "8" [] d = 9 -> "9"

\* strconv.Itoa for a non-negative count: its decimal digits.
RECURSIVE Itoa(_)
Itoa(n) ==
    IF n < 10 THEN <<DigitChar(n)>>
    ELSE Itoa(n \div 10) \o <<DigitChar(n % 10)>>

\* filename := "kismatic-cluster" [+ "-" + Itoa(count)] + ".yaml"
Filename(count) ==
    <<"kismatic-cluster">>
      \o (IF count > 0 THEN <<"-">> \o Itoa(count) ELSE <<>>)
      \o <<".yaml">>

Names == {Filename(c) : c \in Counts}

NoName == <<>>

VARIABLES
    fileData,   \* working directory: name -> "absent" | "old" | "empty" | "plan"
    creators,   \* name -> the invocations that called os.Create on it
    statErr,    \* names on which os.Stat fails with an error other than not-found
    dirWritable,\* whether os.Create succeeds in the working directory
    dir0,       \* the names present when the run started
    ufPc,       \* makeUniqueFile: position of each invocation
    ufCount,    \* makeUniqueFile: the count argument of the innermost call
    ufName      \* makeUniqueFile: name of the file handle returned

VARIABLES
    genPc,      \* generateAlphaNumericPassword: "idle" | "loop" | "done"
    attempts,   \* generateAlphaNumericPassword: the local counter of line 288
    genResult,  \* generateAlphaNumericPassword: the value returned
    genFails,   \* attempts of this call that failed (generator error or pattern)
    genErr,     \* whether garbler.NewPassword returned an error in this call
    passKind    \* the local pass of line 296: "none", "matched", "alnum" or "other"

VARIABLES
    pc,         \* makeInfra / makePlan: position of the run
    opts,       \* the DOOpts value makeInfra works on
    key,        \* the DO_SECRET_ACCESS_KEY setting and whether the key file exists
    nodes,      \* the ProvisionedNodes returned by ProvisionNodes
    plan,       \* the plan.Plan handed to makePlan
    result,     \* what makeInfra returned, or how the process ended
    outcome,    \* per step of the workflow: "notrun", "running", "ok" or its error
    stdout,     \* the messages printed so far
    destPath,   \* the destination handed to scpFile
    printed     \* the node IDs printNodes wrote, in order

allocVars == <<fileData, creators, statErr, dirWritable, dir0, ufPc, ufCount, ufName>>

genVars == <<genPc, attempts, genResult, genFails, genErr, passKind>>

infraVars == <<pc, opts, key, nodes, plan, result, outcome, stdout, destPath, printed>>

vars == <<allocVars, genVars, infraVars>>

(***************************************************************************)
(* makeUniqueFile(count), lines 259-271.                                   *)
(***************************************************************************)
StatNotExist_Unchecked(name) == name \notin statErr

\* os.IsNotExist(err) of os.Stat(filename): true only for a missing file on
\* which Stat does not fail for another reason.
StatNotExist(name) == fileData[name] = "absent" /\ name \notin statErr

\* makeUniqueFile(0) is entered.
ufEnter(p) ==
    /\ ufPc[p] = "idle"
    /\ ufPc' = [ufPc EXCEPT ![p] = "stat"]
    /\ ufCount' = [ufCount EXCEPT ![p] = 0]
    /\ UNCHANGED <<fileData, creators, statErr, dirWritable, dir0, ufName>>

\* An invocation of the tool reaches makeUniqueFile(0), line 221.
ufCall(p) ==
    /\ ufEnter(p)
    /\ UNCHANGED <<genVars, infraVars>>

\* Line 266, the name is free: go on to os.Create.
ufStatFree(p) ==
    /\ ufPc[p] = "stat"
    /\ StatNotExist(Filename(ufCount[p]))
    /\ ufPc' = [ufPc EXCEPT ![p] = "create"]
    /\ UNCHANGED <<fileData, creators, statErr, dirWritable, dir0, ufCount, ufName>>
    /\ UNCHANGED <<genVars, infraVars>>

\* Lines 268-269, any other outcome of Stat: recurse with count + 1.
ufStatTaken(p) ==
    /\ ufPc[p] = "stat"
    /\ ~StatNotExist(Filename(ufCount[p]))
    /\ IF ufCount[p] + 1 > StackDepth
         THEN /\ ufPc' = [ufPc EXCEPT ![p] = "overflow"]
              /\ UNCHANGED ufCount
         ELSE /\ ufCount' = [ufCount EXCEPT ![p] = ufCount[p] + 1]
              /\ UNCHANGED ufPc
    /\ UNCHANGED <<fileData, creators, statErr, dirWritable, dir0, ufName>>
    /\ UNCHANGED <<genVars, infraVars>>

\* Line 267, os.Create(filename): O_CREATE|O_TRUNC, so an existing file of
\* that name is emptied.
ufCreate(p) ==
    /\ ufPc[p] = "create"
    /\ LET name == Filename(ufCount[p]) IN
         IF dirWritable
           THEN /\ fileData' = [fileData EXCEPT ![name] = "empty"]
                /\ creators' = [creators EXCEPT ![name] = @ \cup {p}]
                /\ ufName' = [ufName EXCEPT ![p] = name]
                /\ ufPc' = [ufPc EXCEPT ![p] = "done"]
           ELSE /\ ufPc' = [ufPc EXCEPT ![p] = "failed"]
                /\ UNCHANGED <<fileData, creators, ufName>>
    /\ UNCHANGED <<statErr, dirWritable, dir0, ufCount>>
    /\ UNCHANGED <<genVars, infraVars>>

(***************************************************************************)
(* generateAlphaNumericPassword, lines 287-310.                            *)
(*                                                                         *)
(* A password is kept as its length and the classes of characters that     *)
(* occur in it, which is all the pattern of line 301 looks at.             *)
(***************************************************************************)
\* Line 291.
MinimumTotalLength == 16

\* Lines 305-306: the value of attempts at which a rejected password ends
\* the loop.
MaxAttempts == 50

\* How far above the requested minimum the generated lengths range.
MaxExtraLen == 1

\* rand.Intn(6), lines 292-293.
RandIntn6 == 0..5

CharClasses == {"letter", "digit19", "zero", "punct"}

\* The literal "weakpassword" of lines 298 and 306: twelve letters.
WeakPassword == [len |-> 12, classes |-> {"letter"}]

\* What garbler.NewPassword(reqs) can hand back without an error: at least
\* the minimum length, a letter when uppercase letters are required, a
\* digit when digits are required; punctuation is disabled in reqs and may
\* occur all the same (the reason for line 300).
GarblerPasswords(reqs) ==
    { pw \in [len : reqs.MinimumTotalLength..(reqs.MinimumTotalLength + MaxExtraLen),
              classes : SUBSET CharClasses \ {{}}] :
        /\ reqs.Uppercase > 0 => "letter" \in pw.classes
        /\ reqs.Digits > 0 => pw.classes \cap {"digit19", "zero"} # {} }

Requirements(u, d) ==
    [MinimumTotalLength |-> MinimumTotalLength, Uppercase |-> u, Digits |-> d,
     Punctuation |-> -1]

\* The classes the pattern "^[a-zA-Z1-9]+$" of line 301 admits.
PatternClasses == {"letter", "digit19"}

\* An alphanumeric password, which is what the comment of line 300 says the
\* pattern validates: letters and the digits 0 to 9 only.
IsAlphaNumeric(pw) ==
    pw.len >= 1 /\ pw.classes \subseteq {"letter", "digit19", "zero"}

\* re.MatchString(pass), line 302.
MatchString(pw) == pw.len >= 1 /\ pw.classes \subseteq PatternClasses

\* What is kept of the local pass: whether it matched the pattern and, when
\* it did not, whether it was alphanumeric all the same.
PassKind(pw) ==
    IF MatchString(pw) THEN "matched"
    ELSE IF IsAlphaNumeric(pw) THEN "alnum"
    ELSE "other"

\* Line 288: the function is entered.
genEnter ==
    /\ genPc = "idle"
    /\ genPc' = "loop"
    /\ attempts' = 0
    /\ genFails' = 0
    /\ genErr' = FALSE
    /\ passKind' = "none"
    /\ UNCHANGED genResult

genCall ==
    /\ genEnter
    /\ UNCHANGED <<allocVars, infraVars>>

\* Every password the generator can hand back, whatever rand.Intn drew for
\* the requirements of lines 290-295.
Generated ==
    { pw \in GarblerPasswords(Requirements(0, 0)) :
        \E u \in RandIntn6, d \in RandIntn6 : pw \in GarblerPasswords(Requirements(u, d)) }

\* Line 305: a rejected password ends the loop once attempts has come to 50.
Exhausted_OneEarly(n) == n + 1 = MaxAttempts

Exhausted(n) == n = MaxAttempts

\* Lines 302-304: the generated passwords the pattern lets through.
Accepted == {pw \in Generated : MatchString(pw)}

\* Lines 305-308: the kinds of generated password the pattern turns down.
RejectedKinds == {PassKind(pw) : pw \in {g \in Generated : ~MatchString(g)}}

\* Lines 296-299: the generator returns an error.
genError ==
    /\ genPc = "loop"
    /\ genPc' = "done"
    /\ genResult' = WeakPassword
    /\ genFails' = genFails + 1
    /\ genErr' = TRUE
    /\ passKind' = "none"
    /\ UNCHANGED attempts
    /\ UNCHANGED <<allocVars, infraVars>>

\* Lines 302-304: the password matches the pattern and is returned.
genAccept ==
    /\ genPc = "loop"
    /\ \E pw \in Accepted : genResult' = pw
    /\ genPc' = "done"
    /\ passKind' = "matched"
    /\ UNCHANGED <<attempts, genFails, genErr>>
    /\ UNCHANGED <<allocVars, infraVars>>

\* Lines 305-308: the password is rejected.
genReject ==
    /\ genPc = "loop"
    /\ \E kind \in RejectedKinds : passKind' = kind
    /\ genFails' = genFails + 1
    /\ IF Exhausted(attempts)
         THEN /\ genPc' = "done"
              /\ genResult' = WeakPassword
              /\ UNCHANGED attempts
         ELSE /\ attempts' = attempts + 1
              /\ UNCHANGED <<genPc, genResult>>
    /\ UNCHANGED genErr
    /\ UNCHANGED <<allocVars, infraVars>>

GenInit ==
    /\ genPc = "idle"
    /\ attempts = 0
    /\ genResult = WeakPassword
    /\ genFails = 0
    /\ genErr = FALSE
    /\ passKind = "none"

(***************************************************************************)
(* makeInfra, validateKeyFile and makePlan, lines 123-257.                 *)
(***************************************************************************)
\* Largest worker count drawn for the flag of line 77.
MaxWorker == 2

\* Largest master count drawn for the flag of line 76.
MaxMaster == 1

\* The etcd counts drawn for the flag of line 75: none or one.
EtcdCounts == {0, 1}

\* The invocation whose makeInfra run is followed.
Main == CHOOSE p \in Procs : \A q \in Procs : p <= q

NoErr == "nil"

ProviderErrors == {"provider: droplet limit exceeded", "provider: unauthorized"}

SSHErrors == {"ssh: timed out"}

KeyNotFound == "Private SSH file was not found in expected location"

CreateErrors == {"open: permission denied"}

TemplateErrors == {"template: failed"}

ScpErrors == {"scp: connection refused"}

Steps == {"key", "provision", "waitssh", "plan", "stage"}

Terminal == {"returned", "panicked", "crashed"}

\* The flags' default values, lines 75-86.
DefaultOpts ==
    [Token |-> <<>>, EtcdNodeCount |-> 1, MasterNodeCount |-> 1, WorkerNodeCount |-> 1,
     NoPlan |-> FALSE, Storage |-> FALSE, BootstrapNode |-> TRUE, SSHUser |-> "root",
     SshKeyName |-> "", SshPrivate |-> <<>>, SshPublic |-> <<>>]

\* The values the flags of "do create" can be given.
FlagChoices ==
    { [DefaultOpts EXCEPT !.EtcdNodeCount = e, !.MasterNodeCount = m,
                          !.WorkerNodeCount = w, !.NoPlan = np, !.Storage = st,
                          !.BootstrapNode = bn] :
        e \in EtcdCounts, m \in 0..MaxMaster, w \in 0..MaxWorker,
        np \in BOOLEAN, st \in BOOLEAN, bn \in BOOLEAN }

\* strings.Replace(s, "\r", "", -1), lines 115 and 156.
RECURSIVE RemoveCR(_)
RemoveCR(s) ==
    IF s = <<>> THEN <<>>
    ELSE IF Head(s) = "CR" THEN RemoveCR(Tail(s))
    ELSE <<Head(s)>> \o RemoveCR(Tail(s))

\* strings.Trim(s, "\n"), lines 114 and 155.
RECURSIVE TrimLF(_)
TrimLF(s) ==
    IF s = <<>> THEN <<>>
    ELSE IF Head(s) = "LF" THEN TrimLF(Tail(s))
    ELSE IF s[Len(s)] = "LF" THEN TrimLF(SubSeq(s, 1, Len(s) - 1))
    ELSE s

\* The value of DO_API_TOKEN when set, and the lines a terminal can send.
EnvToken == <<"t", "o", "k">>

TokenLines == {<<"t", "o", "k", "LF">>, <<"t", "o", "k", "CR", "LF">>}

\* Lines 149-157: the token from the environment or, when empty, from the
\* line read on standard input.
ResolveToken(env, line) == IF env # <<>> THEN env ELSE RemoveCR(TrimLF(line))

\* The key file's path: the value of DO_SECRET_ACCESS_KEY, or ssh/cluster.pem
\* beside the executable.  A path is the sequence of its components.
EnvKeyPath == <<"keys/", "id_rsa">>

DefaultKeyPath == <<"ssh/", "cluster.pem">>

\* validateKeyFile, lines 123-146.
validateKeyFile(envSet, exists) ==
    IF ~envSet
      THEN IF ~exists
             THEN [private |-> <<>>, public |-> <<>>, err |-> KeyNotFound]
             ELSE [private |-> DefaultKeyPath, public |-> DefaultKeyPath \o <<".pub">>,
                   err |-> NoErr]
      ELSE [private |-> EnvKeyPath, public |-> EnvKeyPath \o <<".pub">>, err |-> NoErr]

\* Lines 159-166: s, _ := os.Stat(sshPrivate); s.Name() is called before
\* errkey is looked at, and s is nil when Stat failed.
KeyNext(statOk, errkey) ==
    IF ~statOk THEN "panicked"
    ELSE IF errkey # NoErr THEN "returned"
    ELSE "provision"

\* Lines 169-179: the NodeCount handed to ProvisionNodes.
NodeCountOf(o) ==
    [Etcd |-> o.EtcdNodeCount, Worker |-> o.WorkerNodeCount, Master |-> o.MasterNodeCount,
     Boostrap |-> IF o.BootstrapNode THEN 1 ELSE 0]

MkNodes(role, n, user) ==
    [i \in 1..n |-> [ID |-> <<role, i>>, PublicIPv4 |-> <<"pub", role, i>>,
                      PrivateIPv4 |-> <<"priv", role, i>>, SSHUser |-> user]]

\* provisioner.ProvisionNodes: as many nodes of each role as were asked for.
ProvisionNodes(o, cnt) ==
    [Etcd |-> MkNodes("etcd", cnt.Etcd, o.SSHUser),
     Master |-> MkNodes("master", cnt.Master, o.SSHUser),
     Worker |-> MkNodes("worker", cnt.Worker, o.SSHUser),
     Boostrap |-> MkNodes("bootstrap", cnt.Boostrap, o.SSHUser)]

EmptyNodes == [Etcd |-> <<>>, Master |-> <<>>, Worker |-> <<>>, Boostrap |-> <<>>]

ProvisionNext_ErrorIgnored(err) == "waitssh"

\* Lines 181-183.
ProvisionNext(err) == IF err # NoErr THEN "returned" ELSE "waitssh"

\* Lines 186-188.
WaitNext(err) == IF err # NoErr THEN "returned" ELSE "ready"

StorageNodes_Always(o, ns) == ns.Worker

\* Lines 194-197.
StorageNodes(o, ns) == IF o.Storage THEN ns.Worker ELSE <<>>

\* Line 204.
IngressNodes(ns) == <<ns.Worker[1]>>

EmptyPlan ==
    [AdminPassword |-> WeakPassword, Etcd |-> <<>>, Master |-> <<>>, Worker |-> <<>>,
     Ingress |-> <<>>, Storage |-> <<>>, MasterNodeFQDN |-> <<>>,
     MasterNodeShortName |-> <<>>, SSHKeyFile |-> <<>>, SSHUser |-> ""]

\* Lines 198-210: the plan.Plan built for makePlan.
BuildPlan(o, ns, password) ==
    [AdminPassword |-> password,
     Etcd |-> ns.Etcd,
     Master |-> ns.Master,
     Worker |-> ns.Worker,
     Ingress |-> IngressNodes(ns),
     Storage |-> StorageNodes(o, ns),
     MasterNodeFQDN |-> ns.Master[1].PublicIPv4,
     MasterNodeShortName |-> ns.Master[1].PublicIPv4,
     SSHKeyFile |-> <<"/ket/ssh/", o.SshKeyName>>,
     SSHUser |-> ns.Master[1].SSHUser]

\* Lines 204-209 index nodes.Worker[0] and nodes.Master[0] unguarded: on an
\* empty list the Go runtime panics with "index out of range".
BuildNext(ns) ==
    IF Len(ns.Worker) = 0 \/ Len(ns.Master) = 0 THEN "panicked" ELSE "alloc"

\* Lines 247-251: fmt.Errorf builds an error value and the value is dropped,
\* so a failed copy prints nothing; a successful one prints the output.
StageReport(scperr) == IF scperr # NoErr THEN {} ELSE {"Output:"}

\* Lines 241-245.
DestPath(root) == <<IF root = "" THEN "KET_INSTALL_DIR" ELSE root, "kismatic - cluster.yaml">>

\* printRole and printNodes, lines 273-285: the IDs in the order printed.
RECURSIVE IDs(_)
IDs(ns) == IF ns = <<>> THEN <<>> ELSE <<Head(ns).ID>> \o IDs(Tail(ns))

printNodes(ns) == IDs(ns.Etcd) \o IDs(ns.Master) \o IDs(ns.Worker) \o IDs(ns.Boostrap)

\* makeInfra(opts) is entered: lines 148-157.
makeInfraCall ==
    /\ pc = "idle"
    /\ \E flags \in FlagChoices, env \in {<<>>, EnvToken}, line \in TokenLines :
         opts' = [flags EXCEPT !.Token = ResolveToken(env, line)]
    /\ stdout' = stdout \cup {"DO API token env"}
    /\ pc' = "key"
    /\ UNCHANGED <<key, nodes, plan, result, outcome, destPath, printed>>
    /\ UNCHANGED <<allocVars, genVars>>

\* Lines 158-168.
miKey ==
    /\ pc = "key"
    /\ \E envSet \in BOOLEAN, exists \in BOOLEAN :
         LET v == validateKeyFile(envSet, exists)
             statOk == v.private # <<>> /\ exists
             next == KeyNext(statOk, v.err)
         IN /\ key' = [envSet |-> envSet, exists |-> exists]
            /\ pc' = next
            /\ outcome' = [outcome EXCEPT !["key"] =
                              IF next = "provision" THEN "ok" ELSE v.err]
            /\ IF next = "provision"
                 THEN /\ opts' = [opts EXCEPT !.SshKeyName = v.private[Len(v.private)],
                                              !.SshPrivate = v.private,
                                              !.SshPublic = v.public]
                      /\ stdout' = stdout \cup {"SSH file name", "Provisioning"}
                      /\ UNCHANGED result
                 ELSE /\ result' = IF next = "panicked"
                                     THEN "panic: nil pointer dereference"
                                     ELSE v.err
                      /\ UNCHANGED <<opts, stdout>>
    /\ UNCHANGED <<nodes, plan, destPath, printed>>
    /\ UNCHANGED <<allocVars, genVars>>

\* Lines 173-183.
miProvision ==
    /\ pc = "provision"
    /\ \E err \in {NoErr} \cup ProviderErrors :
         /\ nodes' = IF err = NoErr THEN ProvisionNodes(opts, NodeCountOf(opts))
                     ELSE EmptyNodes
         /\ outcome' = [outcome EXCEPT !["provision"] = IF err = NoErr THEN "ok" ELSE err]
         /\ pc' = ProvisionNext(err)
         /\ IF ProvisionNext(err) = "returned"
              THEN result' = err /\ UNCHANGED stdout
              ELSE stdout' = stdout \cup {"Waiting for SSH"} /\ UNCHANGED result
    /\ UNCHANGED <<opts, key, plan, destPath, printed>>
    /\ UNCHANGED <<allocVars, genVars>>

\* Lines 186-188.
miWaitSSH ==
    /\ pc = "waitssh"
    /\ \E err \in {NoErr} \cup SSHErrors :
         /\ outcome' = [outcome EXCEPT !["waitssh"] = IF err = NoErr THEN "ok" ELSE err]
         /\ pc' = WaitNext(err)
         /\ result' = IF WaitNext(err) = "returned" THEN err ELSE result
    /\ UNCHANGED <<opts, key, nodes, plan, stdout, destPath, printed>>
    /\ UNCHANGED <<allocVars, genVars>>

\* Lines 190-192 and 212: no plan was asked for.
miNoPlan ==
    /\ pc = "ready"
    /\ opts.NoPlan
    /\ stdout' = stdout \cup {"Your instances are ready."}
    /\ printed' = printNodes(nodes)
    /\ result' = NoErr
    /\ pc' = "returned"
    /\ UNCHANGED <<opts, key, nodes, plan, outcome, destPath>>
    /\ UNCHANGED <<allocVars, genVars>>

\* Lines 193-200: the plan is assembled, generateAlphaNumericPassword first.
miPlanStart ==
    /\ pc = "ready"
    /\ ~opts.NoPlan
    /\ genEnter
    /\ outcome' = [outcome EXCEPT !["plan"] = "running"]
    /\ pc' = "password"
    /\ UNCHANGED <<opts, key, nodes, plan, result, stdout, destPath, printed>>
    /\ UNCHANGED allocVars

\* Lines 199-210, then makePlan up to its call of makeUniqueFile(0), lines
\* 215-221.  The locals of the password call are gone once it has returned.
miBuildPlan ==
    /\ pc = "password"
    /\ genPc = "done"
    /\ \E parseErr \in {NoErr} \cup TemplateErrors :
         IF BuildNext(nodes) = "panicked"
           THEN /\ pc' = "panicked"
                /\ result' = "panic: index out of range"
                /\ outcome' = [outcome EXCEPT !["plan"] = "panic: index out of range"]
                /\ UNCHANGED <<plan, allocVars>>
           ELSE /\ plan' = BuildPlan(opts, nodes, genResult)
                /\ IF parseErr # NoErr
                     THEN /\ pc' = "returned"
                          /\ result' = parseErr
                          /\ outcome' = [outcome EXCEPT !["plan"] = parseErr]
                          /\ UNCHANGED allocVars
                     ELSE /\ pc' = BuildNext(nodes)
                          /\ ufEnter(Main)
                          /\ UNCHANGED <<result, outcome>>
    /\ genPc' = "idle"
    /\ attempts' = 0
    /\ genResult' = WeakPassword
    /\ genFails' = 0
    /\ genErr' = FALSE
    /\ passKind' = "none"
    /\ UNCHANGED <<opts, key, nodes, stdout, destPath, printed>>

\* Lines 221-225: os.Create failed and makePlan returns its error.
mpCreateFailed ==
    /\ pc = "alloc"
    /\ ufPc[Main] = "failed"
    /\ \E err \in CreateErrors :
         /\ result' = err
         /\ outcome' = [outcome EXCEPT !["plan"] = err]
    /\ pc' = "returned"
    /\ UNCHANGED <<opts, key, nodes, plan, stdout, destPath, printed>>
    /\ UNCHANGED <<allocVars, genVars>>

\* makeUniqueFile ran out of stack: the runtime ends the process.
mpStackOverflow ==
    /\ pc = "alloc"
    /\ ufPc[Main] = "overflow"
    /\ result' = "fatal error: stack overflow"
    /\ outcome' = [outcome EXCEPT !["plan"] = "fatal error: stack overflow"]
    /\ pc' = "crashed"
    /\ UNCHANGED <<opts, key, nodes, plan, stdout, destPath, printed>>
    /\ UNCHANGED <<allocVars, genVars>>

\* Lines 227-234: the template is executed into the file and flushed.
mpRender ==
    /\ pc = "alloc"
    /\ ufPc[Main] = "done"
    /\ \E err \in {NoErr} \cup TemplateErrors :
         IF err # NoErr
           THEN /\ result' = err
                /\ outcome' = [outcome EXCEPT !["plan"] = err]
                /\ pc' = "returned"
                /\ UNCHANGED fileData
           ELSE /\ fileData' = [fileData EXCEPT ![ufName[Main]] = "plan"]
                /\ outcome' = [outcome EXCEPT !["plan"] = "ok"]
                /\ pc' = IF opts.BootstrapNode THEN "stage" ELSE "finish"
                /\ UNCHANGED result
    /\ UNCHANGED <<creators, statErr, dirWritable, dir0, ufPc, ufCount, ufName>>
    /\ UNCHANGED <<opts, key, nodes, plan, stdout, destPath, printed>>
    /\ UNCHANGED genVars

\* Lines 237-252: the plan file is copied to the bootstrap node.
mpStage ==
    /\ pc = "stage"
    /\ \E root \in {"", "DO_KET_INSTALL_DIR"}, scperr \in {NoErr} \cup ScpErrors :
         /\ destPath' = DestPath(root)
         /\ outcome' = [outcome EXCEPT !["stage"] = IF scperr = NoErr THEN "ok" ELSE scperr]
         /\ stdout' = stdout \cup {"Copying kismatic plan file to bootstrap node:"}
                             \cup StageReport(scperr)
    /\ pc' = "finish"
    /\ UNCHANGED <<opts, key, nodes, plan, result, printed>>
    /\ UNCHANGED <<allocVars, genVars>>

\* Lines 253-256.
mpFinish ==
    /\ pc = "finish"
    /\ stdout' = stdout \cup {"To install your cluster, run:", "./kismatic install apply -f"}
    /\ result' = NoErr
    /\ pc' = "returned"
    /\ UNCHANGED <<opts, key, nodes, plan, outcome, destPath, printed>>
    /\ UNCHANGED <<allocVars, genVars>>

InfraInit ==
    /\ pc = "idle"
    /\ opts = DefaultOpts
    /\ key = [envSet |-> FALSE, exists |-> FALSE]
    /\ nodes = EmptyNodes
    /\ plan = EmptyPlan
    /\ result = "none"
    /\ outcome = [s \in Steps |-> "notrun"]
    /\ stdout = {}
    /\ destPath = <<>>
    /\ printed = <<>>

(***************************************************************************)
(* The working directory at the start of a run.                            *)
(***************************************************************************)
OldNames == {Filename(c) : c \in 0..(MaxFiles - 1)}

StatErrChoices == {{}} \cup {{n} : n \in Names} \cup {Names}

DirInit(present, faulty, writable) ==
    /\ fileData = [n \in Names |-> IF n \in present THEN "old" ELSE "absent"]
    /\ creators = [n \in Names |-> {}]
    /\ dir0 = present
    /\ statErr = faulty
    /\ dirWritable = writable
    /\ ufPc = [p \in Procs |-> "idle"]
    /\ ufCount = [p \in Procs |-> 0]
    /\ ufName = [p \in Procs |-> NoName]

InitAlloc ==
    \E present \in SUBSET OldNames, faulty \in StatErrChoices, writable \in BOOLEAN :
        DirInit(present, faulty, writable) /\ GenInit /\ InfraInit

NextAlloc ==
    \E p \in Procs : ufCall(p) \/ ufStatFree(p) \/ ufStatTaken(p) \/ ufCreate(p)

SpecAlloc == InitAlloc /\ [][NextAlloc]_vars

(***************************************************************************)
(* One call of generateAlphaNumericPassword on its own.                    *)
(***************************************************************************)
InitPass == DirInit({}, {}, TRUE) /\ GenInit /\ InfraInit

NextPass == genCall \/ genError \/ genAccept \/ genReject

SpecPass == InitPass /\ [][NextPass]_vars

(***************************************************************************)
(* One run of "do create" in a working directory.                          *)
(***************************************************************************)
InitInfra ==
    \E present \in {{}, OldNames} :
      \E env \in {<<{}, TRUE>>, <<Names, TRUE>>, <<{}, FALSE>>} :
        DirInit(present, env[1], env[2]) /\ GenInit /\ InfraInit

NextInfra ==
    \/ makeInfraCall
    \/ miKey
    \/ miProvision
    \/ miWaitSSH
    \/ miNoPlan
    \/ miPlanStart
    \/ genError
    \/ genAccept
    \/ genReject
    \/ miBuildPlan
    \/ ufStatFree(Main)
    \/ ufStatTaken(Main)
    \/ ufCreate(Main)
    \/ mpCreateFailed
    \/ mpStackOverflow
    \/ mpRender
    \/ mpStage
    \/ mpFinish

SpecInfra == InitInfra /\ [][NextInfra]_vars

(***************************************************************************)
(* Properties.                                                             *)
(***************************************************************************)
\* The allocator has handed invocation p a file.
Allocated(p) == ufPc[p] = "done"

\* C1: two invocations of makeUniqueFile that run against the same working
\* directory never return the same file name, and no file is created (and
\* so emptied) by both of them.
C1_NamesNeverShared ==
    /\ \A p \in Procs : \A q \in Procs \ {p} :
         Allocated(p) /\ Allocated(q) => ufName[p] # ufName[q]
    /\ \A n \in Names : Cardinality(creators[n]) <= 1

\* The directory held exactly kismatic-cluster.yaml, -1, ..., -(N-1) at the start.
Contiguous(N) == dir0 = {Filename(c) : c \in 0..(N - 1)}

\* p is the only invocation of the allocator, on a directory where Stat and
\* Create work.
SingleCall(p) ==
    /\ ufPc[p] # "idle"
    /\ \A q \in Procs \ {p} : ufPc[q] = "idle"
    /\ statErr = {}
    /\ dirWritable

\* C2: with exactly the N files kismatic-cluster.yaml, kismatic-cluster-1.yaml,
\* ..., kismatic-cluster-(N-1).yaml present, a single makeUniqueFile(0) probes
\* no further than suffix N, creates and returns the name with suffix N (the
\* bare name when N = 0), and leaves the files that were there untouched.
C2_SmallestFreeName ==
    \A p \in Procs : \A N \in 0..MaxFiles :
        SingleCall(p) /\ Contiguous(N) =>
            /\ ufPc[p] \in {"stat", "create", "done"}
            /\ ufCount[p] <= N
            /\ \A n \in dir0 : fileData[n] = "old" /\ creators[n] = {}
            /\ Allocated(p) =>
                 /\ ufName[p] = Filename(N)
                 /\ fileData[Filename(N)] = "empty"
                 /\ creators[Filename(N)] = {p}
                 /\ \A n \in Names \ (dir0 \cup {Filename(N)}) : fileData[n] = "absent"

C2_Witness ==
    /\ SingleCall(Main)
    /\ Contiguous(MaxFiles)
    /\ Allocated(Main)
    /\ ufName[Main] = <<"kismatic-cluster", "-", "3", ".yaml">>

\* C9: whatever the working directory is like, also when Stat fails on every
\* candidate with an error other than not-found, makeUniqueFile ends within
\* a fixed number of probes with a file or an error, and the process never
\* dies of the recursion.
C9_ProbingBounded == \A p \in Procs : ufPc[p] # "overflow"

C6_AlphaNumericAccepted ==
    /\ genPc = "done" /\ genResult # WeakPassword =>
         genResult.len >= 16 /\ IsAlphaNumeric(genResult)
    /\ passKind # "alnum"

\* makeInfra has ended, by returning or by the process dying.
Ended == pc \in Terminal

\* No file of the working directory was created or changed by the run.
NoFileCreated ==
    \A n \in Names :
        /\ creators[n] = {}
        /\ fileData[n] = IF n \in dir0 THEN "old" ELSE "absent"

\* C3: with a plan asked for and no master or no worker provisioned, the run
\* ends by returning an error; the empty list is never indexed and no plan
\* file is created.
C3_EmptyRoleIsAnError ==
    /\ outcome["plan"] # "notrun"
    /\ Len(nodes.Master) = 0 \/ Len(nodes.Worker) = 0
    /\ Ended
    => /\ pc = "returned"
       /\ result # NoErr
       /\ NoFileCreated

\* C4: when the key file does not exist, wherever its path came from,
\* makeInfra returns the precondition error: nothing is dereferenced and
\* ProvisionNodes is never called.
C4_MissingKeyIsAnError ==
    /\ outcome["key"] # "notrun"
    /\ ~key.exists
    => /\ pc = "returned"
       /\ result = KeyNotFound
       /\ outcome["provision"] = "notrun"

\* The warning of line 248.
StagingWarning == "Unable to push kismatic plan to boostrap node"

\* C7: when copying the plan to the bootstrap node fails, the failure is
\* printed as a warning, the plan file stays in place with its content and
\* makePlan returns no error.
C7_StagingFailureReported ==
    /\ pc = "returned"
    /\ outcome["stage"] \in ScpErrors
    => /\ result = NoErr
       /\ fileData[ufName[Main]] = "plan"
       /\ StagingWarning \in stdout

\* makePlan has been handed the plan.
PlanHanded == pc \in {"alloc", "stage", "finish"}

\* C8: the plan handed to makePlan has for Storage the whole worker list, in
\* order, when the storage-cluster option is set and the empty list when it
\* is not, and for Ingress the one-element list of the first worker.
C8_StorageAndIngress ==
    PlanHanded =>
        /\ Len(nodes.Worker) >= 1
        /\ Len(plan.Storage) = IF opts.Storage THEN Len(nodes.Worker) ELSE 0
        /\ \A i \in 1..Len(plan.Storage) : plan.Storage[i] = nodes.Worker[i]
        /\ Len(plan.Ingress) = 1
        /\ plan.Ingress[1] = nodes.Worker[1]

C8_Witness ==
    /\ PlanHanded
    /\ Len(nodes.Worker) = 2
    /\ ~opts.Storage
    /\ plan.Storage = <<>>
    /\ plan.Worker # <<>>

\* C10: provisioning, waiting for SSH, plan assembly and staging happen in
\* that order, each only after the one before succeeded; an error of
\* ProvisionNodes or WaitForSSH is what makeInfra returns, with no plan file
\* and no staging; and with NoPlan set there is no plan file and no staging.
C10_StepsInOrder ==
    /\ outcome["provision"] # "notrun" => outcome["key"] = "ok"
    /\ outcome["waitssh"] # "notrun" => outcome["provision"] = "ok"
    /\ outcome["plan"] # "notrun" => outcome["waitssh"] = "ok" /\ ~opts.NoPlan
    /\ outcome["stage"] # "notrun" => outcome["plan"] = "ok"
    /\ ~NoFileCreated => outcome["plan"] # "notrun"
    /\ \A s \in {"provision", "waitssh"} :
         outcome[s] \notin {"notrun", "ok"} =>
            /\ pc = "returned"
            /\ result = outcome[s]
            /\ NoFileCreated
            /\ outcome["plan"] = "notrun"
            /\ outcome["stage"] = "notrun"
    /\ pc # "idle" /\ opts.NoPlan =>
         NoFileCreated /\ outcome["plan"] = "notrun" /\ outcome["stage"] = "notrun"
    /\ pc = "returned" /\ opts.NoPlan /\ outcome["waitssh"] = "ok" => result = NoErr

C10_Witness ==
    /\ pc = "returned"
    /\ outcome["provision"] = "ok"
    /\ outcome["waitssh"] \in SSHErrors
    /\ result = outcome["waitssh"]

====
